---- MODULE Spec2Model ----
(***************************************************************************)
(* Model of the PDF viewer/editor: the document session (working copy,     *)
(* save, close), the edit transaction engine (replace, delete, highlight,  *)
(* insert, click-to-edit, remove page, rotate) and the inline editor.      *)
(*                                                                         *)
(* Two implementations live in the repository: src/app.py (impl = "app")   *)
(* and src/app/ (impl = "pkg").  A run of the model is a run of one of     *)
(* them.                                                                   *)
(*                                                                         *)
(* A document is a sequence of pages.  A page carries its words in the     *)
(* order page.get_text("words") lists them; a word is the tuple            *)
(* (x0, y0, x1, y1, text) of the source.  Every glyph is CharW units wide; *)
(* a redaction removes the glyphs whose box overlaps the redaction         *)
(* rectangle and leaves the other glyphs of the word in place.  A file is  *)
(* the document that was last written to it.                               *)
(***************************************************************************)
EXTENDS Integers, Sequences, FiniteSets, TLC

----------------------------------------------------------------------------
(* Bounds *)

MaxOps == 2        \* engine calls, editor commits and saves per run
MaxOpens == 1      \* times a file is opened per run

----------------------------------------------------------------------------
(* Geometry *)

CharW == 2         \* width of one glyph, document units
LineH == 5         \* height of a text line, document units
Asc == 4           \* glyph box above the baseline of inserted text
Desc == 1          \* glyph box below the baseline of inserted text
Pad == 1           \* delete_text: rect.x0 -= 1, rect.x1 += 1
PageW == 40        \* page.rect.width
PageH == 10        \* page.rect.height

Rect(x0, y0, x1, y1) == [x0 |-> x0, y0 |-> y0, x1 |-> x1, y1 |-> y1]

\* fitz.Rect intersection with positive area
Overlaps(a, b) ==
    /\ a.x0 < b.x1 /\ b.x0 < a.x1
    /\ a.y0 < b.y1 /\ b.y0 < a.y1

\* the word tuple of page.get_text("words"): (x0, y0, x1, y1, word, ...)
Word(x0, y0, x1, y1, text) ==
    [x0 |-> x0, y0 |-> y0, x1 |-> x1, y1 |-> y1, text |-> text]

WordRect(w) == Rect(w.x0, w.y0, w.x1, w.y1)

\* the box of the i-th glyph of a word
CharBox(w, i) == Rect(w.x0 + CharW * (i - 1), w.y0, w.x0 + CharW * i, w.y1)

----------------------------------------------------------------------------
(* Text *)

Cat == <<"C", "a", "t">>
Category == <<"C", "a", "t", "e", "g", "o", "r", "y">>
CatCat == <<"C", "a", "t", "C", "a", "t">>
Hi == <<"H", "i">>
Hello == <<"H", "e", "l", "l", "o">>
Hel == <<"H", "e", "l">>
Dog == <<"D", "o", "g">>
Empty == <<>>
Blank == <<" ">>
PaddedCat == <<" ", "C", "a", "t", " ">>

RECURSIVE LStrip(_)
LStrip(s) ==
    IF s = <<>> THEN s
    ELSE IF Head(s) = " " THEN LStrip(Tail(s)) ELSE s

RECURSIVE RStrip(_)
RStrip(s) ==
    IF s = <<>> THEN s
    ELSE IF s[Len(s)] = " " THEN RStrip(SubSeq(s, 1, Len(s) - 1)) ELSE s

\* str.strip()
strip(s) == RStrip(LStrip(s))

\* the start indices of the occurrences of needle n in t from index i on,
\* left to right, a match resuming after the previous one; none for an empty
\* needle
RECURSIVE Occurrences(_, _, _)
Occurrences(t, n, i) ==
    IF n = <<>> \/ i + Len(n) - 1 > Len(t) THEN <<>>
    ELSE IF SubSeq(t, i, i + Len(n) - 1) = n
         THEN <<i>> \o Occurrences(t, n, i + Len(n))
         ELSE Occurrences(t, n, i + 1)

----------------------------------------------------------------------------
(* Pages *)

\* a page: id names the page of the source file it came from
Page(id, words) ==
    [id |-> id, words |-> words, hl |-> <<>>, rot |-> 0, img |-> FALSE]

\* a page whose text is set on an image that covers the page and was drawn
\* before the text (a scan with its text layer, a background)
ImagePage(id, words) == [Page(id, words) EXCEPT !.img = TRUE]

\* the rectangles of the occurrences of needle n inside word w
WordHits(w, n) ==
    LET occ == Occurrences(w.text, n, 1)
    IN [k \in 1..Len(occ) |->
          Rect(w.x0 + CharW * (occ[k] - 1), w.y0,
               w.x0 + CharW * (occ[k] - 1 + Len(n)), w.y1)]

RECURSIVE HitsFrom(_, _, _)
HitsFrom(words, n, k) ==
    IF k > Len(words) THEN <<>>
    ELSE WordHits(words[k], n) \o HitsFrom(words, n, k + 1)

\* page.search_for(text): substring search, one rectangle per occurrence, in
\* the order of the page's words
search_for(page, n) == HitsFrom(page.words, n, 1)

\* the words left of word w when the glyphs with index in K are kept: every
\* maximal run of kept glyphs is a word, at the place its glyphs had
RECURSIVE Pieces(_, _, _)
Pieces(w, K, i) ==
    IF i > Len(w.text) THEN <<>>
    ELSE IF i \notin K THEN Pieces(w, K, i + 1)
    ELSE LET j == CHOOSE j \in i..Len(w.text) :
                      /\ \A k \in i..j : k \in K
                      /\ (j = Len(w.text) \/ (j + 1) \notin K)
         IN <<Word(w.x0 + CharW * (i - 1), w.y0, w.x0 + CharW * j, w.y1,
                   SubSeq(w.text, i, j))>>
            \o Pieces(w, K, j + 1)

\* the glyphs of w no rectangle of R overlaps
Kept(w, R) ==
    {i \in 1..Len(w.text) : \A r \in R : ~Overlaps(CharBox(w, i), r)}

RECURSIVE RedactFrom(_, _, _)
RedactFrom(words, R, k) ==
    IF k > Len(words) THEN <<>>
    ELSE Pieces(words[k], Kept(words[k], R), 1) \o RedactFrom(words, R, k + 1)

\* page.add_redact_annot(r) for every r in R, then page.apply_redactions()
apply_redactions(page, R) ==
    [page EXCEPT !.words = RedactFrom(page.words, R, 1)]

\* page.insert_text((x, y), text): the text is set with its baseline at y;
\* blanks set nothing, so each blank-separated piece is a word
insert_text(page, x, y, text) ==
    LET run == Word(x, y - Asc, x + CharW * Len(text), y + Desc, text)
        ink == {i \in 1..Len(text) : text[i] # " "}
    IN [page EXCEPT !.words = @ \o Pieces(run, ink, 1)]

\* as add_highlight_annots, but the marked rectangles are redacted as well
add_highlight_annots_redacting(page, rects) ==
    [apply_redactions(page, {rects[k] : k \in 1..Len(rects)})
        EXCEPT !.hl = @ \o rects]

\* page.add_highlight_annot(r) for every r of rects
add_highlight_annots(page, rects) == [page EXCEPT !.hl = @ \o rects]

----------------------------------------------------------------------------
(* Documents, files and page widgets *)

\* a document is its sequence of pages; page index i of the source is d[i + 1]
ValidIndex(d, i) == i \in 0..(Len(d) - 1)
PageAt(d, i) == d[i + 1]
SetPage(d, i, p) == [d EXCEPT ![i + 1] = p]
\* as RemoveAt, but the last element is the one removed
RemoveLast(s, i) == SubSeq(s, 1, Len(s) - 1)

\* del s[i] (page_widgets.pop(index), doc.delete_page(index))
RemoveAt(s, i) == SubSeq(s, 1, i) \o SubSeq(s, i + 2, Len(s))

\* a PageWidget: pix is the page its label displays, handler the page index
\* its mousePressEvent lambda captured (NoHandler: no handler installed)
NoHandler == -1
PageWidget(p) == [pix |-> p, handler |-> NoHandler]

\* show_page(index): renders document page index into page_widgets[index];
\* an error (no such page, no such widget) is caught inside show_page
show_page(d, pw, index) ==
    IF ValidIndex(d, index) /\ index < Len(pw)
    THEN [pw EXCEPT ![index + 1].pix = PageAt(d, index)]
    ELSE pw

RECURSIVE ShowFrom(_, _, _)
ShowFrom(d, pw, i) ==
    IF i >= Len(pw) THEN pw ELSE ShowFrom(d, show_page(d, pw, i), i + 1)

\* for i in range(len(self.page_widgets)): self.show_page(i)
show_all_pages(d, pw) == ShowFrom(d, pw, 0)

\* load_pages(): one PageWidget per page of the document, each rendered
load_pages(d) == [k \in 1..Len(d) |-> PageWidget(d[k])]

\* What one call of an engine operation did: the in-memory document, the
\* working-copy file and the page widgets after it, whether it reported
\* success (ok), whether an internal error was raised and caught (raised), and
\* how many persistence calls completed (saves), redactions were applied
\* (redacts), insert_text calls completed (inserts) and targets were located
\* (found).
Res(d, f, pw, ok, raised, saves, redacts, inserts, found) ==
    [doc |-> d, file |-> f, pw |-> pw, ok |-> ok, raised |-> raised,
     saves |-> saves, redacts |-> redacts, inserts |-> inserts,
     found |-> found]

\* The faults of the environment: insert_text raises ("insert"), the save to
\* the working copy raises ("save"), or nothing fails ("none").
Faults == {"none", "insert", "save"}
SaveFaults == {"none", "save"}

\* "if not self.doc": a document is true when it has pages (len(doc) > 0)
DocTruthy(d) == Len(d) > 0

\* doc.saveIncr() / doc.save(path): raises on an I/O fault and for a document
\* left without pages; the file is then as it was
SaveRaises(d, fault) == fault = "save" \/ Len(d) = 0

----------------------------------------------------------------------------
(* Edit transaction engine *)

\* 0.8 * height, the baseline offset of the re-inserted text
BaselineOffset(height) == (height * 8) \div 10

\* as NoMatch, but the document is saved and success reported
NoMatchSaved(d, f, pw) == Res(d, d, pw, TRUE, FALSE, 1, 0, 0, 0)

\* edit_text of src/app.py: the search found nothing, "return False"
NoMatch(d, f, pw) == Res(d, f, pw, FALSE, FALSE, 0, 0, 0, 0)

\* the body of the loop of edit_text for matches k..: redact the match, then
\* insert new_text at its origin
RECURSIVE EditLoop(_, _, _, _)
EditLoop(page, matches, new_text, k) ==
    IF k > Len(matches) THEN page
    ELSE LET rect == matches[k]
             height == rect.y1 - rect.y0
             redacted == apply_redactions(page, {rect})
             inserted == insert_text(redacted, rect.x0,
                                     rect.y0 + BaselineOffset(height), new_text)
         IN EditLoop(inserted, matches, new_text, k + 1)

\* PDFViewWidget.edit_text of src/app.py
edit_text(d, f, pw, page_number, old_text, new_text, fault) ==
    IF ~DocTruthy(d) THEN Res(d, f, pw, FALSE, FALSE, 0, 0, 0, 0)
    ELSE IF ~ValidIndex(d, page_number)
    THEN Res(d, f, pw, FALSE, TRUE, 0, 0, 0, 0)
    ELSE
    LET page == PageAt(d, page_number)
        matches == search_for(page, old_text)
        n == Len(matches)
    IN IF n = 0 THEN NoMatch(d, f, pw)
       ELSE IF fault = "insert"
       THEN Res(SetPage(d, page_number, apply_redactions(page, {matches[1]})),
                f, pw, FALSE, TRUE, 0, 1, 0, n)
       ELSE LET d2 == SetPage(d, page_number,
                              EditLoop(page, matches, new_text, 1))
            IN IF SaveRaises(d2, fault)
               THEN Res(d2, f, pw, FALSE, TRUE, 0, n, n, n)
               ELSE Res(d2, d2, show_page(d2, pw, page_number),
                        TRUE, FALSE, 1, n, n, n)

\* block 0 of page.get_text("dict", clip=inst) has lines with a span: the
\* blocks come in the order they were drawn and hold the images too, so
\* block 0 is a text block when no image lies under the text, and it has a
\* span when some glyph lies in the clip
HasSpan(page, inst) ==
    /\ ~page.img
    /\ \E k \in 1..Len(page.words) :
           \E i \in 1..Len(page.words[k].text) :
               Overlaps(CharBox(page.words[k], i), inst)

\* the matches the loop of edit_text of src/app/ did not pass over
RECURSIVE EditCountPkg(_, _, _, _)
EditCountPkg(page, insts, new_text, k) ==
    IF k > Len(insts) THEN 0
    ELSE LET inst == insts[k]
             text_height == inst.y1 - inst.y0
         IN IF ~HasSpan(page, inst)
            THEN EditCountPkg(page, insts, new_text, k + 1)
            ELSE 1 + EditCountPkg(
                         insert_text(apply_redactions(page, {inst}), inst.x0,
                                     inst.y0 + BaselineOffset(text_height),
                                     new_text),
                         insts, new_text, k + 1)

\* the loop of edit_text of src/app/widgets/pdf_view_widget.py: a match with
\* no span in its clip is passed over
RECURSIVE EditLoopPkg(_, _, _, _)
EditLoopPkg(page, insts, new_text, k) ==
    IF k > Len(insts) THEN page
    ELSE LET inst == insts[k]
             text_height == inst.y1 - inst.y0
         IN IF ~HasSpan(page, inst)
            THEN EditLoopPkg(page, insts, new_text, k + 1)
            ELSE EditLoopPkg(
                     insert_text(apply_redactions(page, {inst}), inst.x0,
                                 inst.y0 + BaselineOffset(text_height),
                                 new_text),
                     insts, new_text, k + 1)

\* PDFViewWidget.edit_text of src/app/widgets/pdf_view_widget.py
pkg_edit_text(d, f, pw, page_number, old_text, new_text, fault) ==
    IF ~DocTruthy(d) THEN Res(d, f, pw, FALSE, FALSE, 0, 0, 0, 0)
    ELSE IF ~ValidIndex(d, page_number)
    THEN Res(d, f, pw, FALSE, TRUE, 0, 0, 0, 0)
    ELSE
    LET page == PageAt(d, page_number)
        text_instances == search_for(page, old_text)
        n == Len(text_instances)
    IN IF n = 0 THEN Res(d, f, pw, FALSE, FALSE, 0, 0, 0, 0)
       ELSE IF fault = "insert" /\ HasSpan(page, text_instances[1])
       THEN Res(SetPage(d, page_number,
                        apply_redactions(page, {text_instances[1]})),
                f, pw, FALSE, TRUE, 0, 1, 0, n)
       ELSE LET d2 == SetPage(d, page_number,
                              EditLoopPkg(page, text_instances, new_text, 1))
                done == EditCountPkg(page, text_instances, new_text, 1)
            IN IF SaveRaises(d2, fault)
               THEN Res(d2, f, pw, FALSE, TRUE, 0, done, done, n)
               ELSE Res(d2, d2, show_page(d2, pw, page_number),
                        TRUE, FALSE, 1, done, done, n)

\* as ExactFrom, but a word matches when it contains the stripped query
RECURSIVE ExactFromContains(_, _, _)
ExactFromContains(words, text, k) ==
    IF k > Len(words) THEN <<>>
    ELSE (IF Occurrences(strip(words[k].text), strip(text), 1) # <<>>
          THEN <<WordRect(words[k])>> ELSE <<>>)
         \o ExactFromContains(words, text, k + 1)

\* the exact matches of delete_text: the rectangles of the words whose
\* stripped text equals the stripped query
RECURSIVE ExactFrom(_, _, _)
ExactFrom(words, text, k) ==
    IF k > Len(words) THEN <<>>
    ELSE (IF strip(words[k].text) = strip(text)
          THEN <<WordRect(words[k])>> ELSE <<>>)
         \o ExactFrom(words, text, k + 1)

\* rect.x0 -= 1; rect.x1 += 1
PadRect(rect) == [rect EXCEPT !.x0 = @ - Pad, !.x1 = @ + Pad]

\* PDFViewWidget.delete_text of src/app.py
delete_text(d, f, pw, page_number, text, fault) ==
    IF ~DocTruthy(d) THEN Res(d, f, pw, FALSE, FALSE, 0, 0, 0, 0)
    ELSE IF ~ValidIndex(d, page_number)
    THEN Res(d, f, pw, FALSE, TRUE, 0, 0, 0, 0)
    ELSE
    LET page == PageAt(d, page_number)
        matches == ExactFrom(page.words, text, 1)
        n == Len(matches)
        padded == {PadRect(matches[k]) : k \in 1..n}
        d2 == SetPage(d, page_number, apply_redactions(page, padded))
    IN IF n = 0 THEN Res(d, f, pw, FALSE, FALSE, 0, 0, 0, 0)
       ELSE IF SaveRaises(d2, fault)
       THEN Res(d2, f, pw, FALSE, TRUE, 0, n, 0, n)
       ELSE Res(d2, d2, show_page(d2, pw, page_number),
                TRUE, FALSE, 1, n, 0, n)

\* PDFViewWidget.add_highlight of src/app/widgets/pdf_view_widget.py
pkg_add_highlight(d, f, pw, page_number, text, fault) ==
    IF ~ValidIndex(d, page_number)
    THEN Res(d, f, pw, FALSE, TRUE, 0, 0, 0, 0)
    ELSE
    LET page == PageAt(d, page_number)
        matches == search_for(page, text)
        n == Len(matches)
        d2 == SetPage(d, page_number, add_highlight_annots(page, matches))
    IN IF SaveRaises(d2, fault)
       THEN Res(d2, f, pw, FALSE, TRUE, 0, 0, 0, n)
       ELSE Res(d2, d2, show_page(d2, pw, page_number),
                TRUE, FALSE, 1, 0, 0, n)

\* PDFViewWidget.add_highlight of src/app.py
add_highlight(d, f, pw, page_number, text, fault) ==
    IF ~DocTruthy(d) THEN Res(d, f, pw, FALSE, FALSE, 0, 0, 0, 0)
    ELSE pkg_add_highlight(d, f, pw, page_number, text, fault)

\* PDFViewWidget.add_text of src/app/widgets/pdf_view_widget.py
add_text(d, f, pw, page_number, text, x, y, fault) ==
    IF ~ValidIndex(d, page_number) \/ fault = "insert"
    THEN Res(d, f, pw, FALSE, TRUE, 0, 0, 0, 0)
    ELSE
    LET d2 == SetPage(d, page_number,
                      insert_text(PageAt(d, page_number), x, y, text))
    IN IF SaveRaises(d2, fault)
       THEN Res(d2, f, pw, FALSE, TRUE, 0, 0, 1, 0)
       ELSE Res(d2, d2, show_page(d2, pw, page_number),
                TRUE, FALSE, 1, 0, 1, 0)

\* PDFViewWidget.remove_page (both implementations): the widget is popped
\* first, then the page is deleted and the document saved.  Deleting the only
\* page either is refused by the library (refuse) or leaves a document with
\* no pages, which cannot be saved.
remove_page(d, f, pw, index, fault, refuse) ==
    IF index \notin 0..(Len(pw) - 1)
    THEN Res(d, f, pw, FALSE, TRUE, 0, 0, 0, 0)
    ELSE
    LET pw1 == RemoveAt(pw, index)
        d1 == RemoveAt(d, index)
    IN IF ~ValidIndex(d, index) \/ (Len(d) = 1 /\ refuse)
       THEN Res(d, f, pw1, FALSE, TRUE, 0, 0, 0, 0)
       ELSE IF SaveRaises(d1, fault)
       THEN Res(d1, f, pw1, FALSE, TRUE, 0, 0, 0, 0)
       ELSE Res(d1, d1, show_all_pages(d1, pw1), TRUE, FALSE, 1, 0, 0, 0)

\* page.set_rotation(degrees) for every page
RotateAll(d, degrees) == [k \in 1..Len(d) |-> [d[k] EXCEPT !.rot = degrees]]

\* as rotate_all_pages, but success is reported without the save
rotate_all_pages_unsaved(d, f, pw, degrees, fault) ==
    LET d2 == RotateAll(d, degrees)
    IN Res(d2, f, show_all_pages(d2, pw), TRUE, FALSE, 1, 0, 0, 0)

\* doc.save(filename) without incremental=True: PyMuPDF raises "save to
\* original must be incremental" when filename is the file the document was
\* opened from, whatever else the environment does
FullSaveRaises(to_original, d, fault) == to_original \/ SaveRaises(d, fault)

\* PDFViewWidget.rotate_all_pages (both implementations): the document was
\* opened from working_pdf_path, and doc.save(self.working_pdf_path) saves
\* to it
rotate_all_pages(d, f, pw, degrees, fault) ==
    LET d2 == RotateAll(d, degrees)
    IN IF FullSaveRaises(TRUE, d2, fault)
       THEN Res(d2, f, pw, FALSE, TRUE, 0, 0, 0, 0)
       ELSE Res(d2, d2, show_all_pages(d2, pw), TRUE, FALSE, 1, 0, 0, 0)

----------------------------------------------------------------------------
(* The inline editor (current_text_edit) and click-to-edit *)

NoPage == -1       \* current_page_index = None

\* current_text_edit: original_word and pdf_position hold at most one value
\* (none: the attribute is unset or None)
HiddenEditor ==
    [visible |-> FALSE, focus |-> FALSE, text |-> Empty,
     original_word |-> <<>>, pdf_position |-> <<>>]

\* The state a commit of the inline editor works on, and what it did so far:
\* faults are the faults the environment deals to the successive attempts,
\* commits and deletes count the executions of the mutating bodies of
\* finish_text_edit and of delete_current_text.
Ctx(d, f, pw, e, cpi, faults) ==
    [doc |-> d, file |-> f, pw |-> pw, ed |-> e, cpi |-> cpi,
     faults |-> faults, ok |-> TRUE, raised |-> FALSE, saves |-> 0,
     redacts |-> 0, inserts |-> 0, commits |-> 0, deletes |-> 0]

NextFault(x) == IF x.faults = <<>> THEN "none" ELSE Head(x.faults)
DealFault(x) == [x EXCEPT !.faults = IF @ = <<>> THEN @ ELSE Tail(@)]
Failed(x) == [x EXCEPT !.ok = FALSE, !.raised = TRUE]

RECURSIVE finish_text_edit(_)
RECURSIVE delete_current_text(_)
RECURSIVE custom_focus_out(_)

\* the editor loses the focus: focusOutEvent runs custom_focus_out
FocusOut(x) == custom_focus_out([x EXCEPT !.ed.focus = FALSE])

\* current_text_edit.hide(): a no-op on a hidden editor; a focused editor
\* loses the focus once it is no longer visible
Hide(x) ==
    IF ~x.ed.visible THEN x
    ELSE IF x.ed.focus THEN FocusOut([x EXCEPT !.ed.visible = FALSE])
    ELSE [x EXCEPT !.ed.visible = FALSE]

\* QMessageBox.warning(self, ...): the modal dialog takes the focus from a
\* focused editor while it is open; the focus comes back to an editor that is
\* still visible when the dialog closes
ErrorDialog(x) ==
    IF ~x.ed.focus THEN x
    ELSE LET y == FocusOut(x)
         IN [y EXCEPT !.ed.focus = y.ed.visible]

\* as RedactOriginal, but without a word that was hit the surroundings of
\* the clicked point are redacted
RedactOriginalOrClick(page, e) ==
    IF e.original_word # <<>>
    THEN apply_redactions(page, {WordRect(e.original_word[1])})
    ELSE apply_redactions(
             page, {Rect(e.pdf_position[1].x - CharW,
                         e.pdf_position[1].y - LineH,
                         e.pdf_position[1].x + CharW,
                         e.pdf_position[1].y + LineH)})

\* finish_text_edit: "If replacing existing text, delete it first": the box
\* of original_word is redacted
RedactOriginal(page, e) ==
    IF e.original_word # <<>>
    THEN apply_redactions(page, {WordRect(e.original_word[1])})
    ELSE page

\* the try block of finish_text_edit with its except clause
CommitEdit(x0) ==
    LET fault == NextFault(x0)
        x == [DealFault(x0) EXCEPT !.commits = @ + 1]
        new_text == strip(x.ed.text)
        has_word == x.ed.original_word # <<>>
    IN IF ~ValidIndex(x.doc, x.cpi) THEN ErrorDialog(Failed(x))
       ELSE
       LET page == PageAt(x.doc, x.cpi)
           redacted == RedactOriginal(page, x.ed)
           nred == IF has_word THEN 1 ELSE 0
           pos == x.ed.pdf_position[1]
           d2 == SetPage(x.doc, x.cpi,
                         insert_text(redacted, pos.x, pos.y, new_text))
       IN IF fault = "insert"
          THEN ErrorDialog(Failed(
                   [x EXCEPT !.doc = SetPage(x.doc, x.cpi, redacted),
                             !.redacts = @ + nred]))
          ELSE IF SaveRaises(d2, fault)
          THEN ErrorDialog(Failed(
                   [x EXCEPT !.doc = d2, !.redacts = @ + nred,
                             !.inserts = @ + 1]))
          ELSE [x EXCEPT !.doc = d2, !.file = d2,
                         !.pw = show_page(d2, x.pw, x.cpi),
                         !.redacts = @ + nred, !.inserts = @ + 1,
                         !.saves = @ + 1]

\* as finish_text_edit, but without the test for unchanged text
finish_text_edit_no_fast_path(x) ==
    IF ~x.ed.visible \/ x.cpi = NoPage THEN x
    ELSE IF strip(x.ed.text) = <<>>
    THEN Hide(IF x.ed.original_word # <<>> THEN delete_current_text(x) ELSE x)
    ELSE Hide(CommitEdit(x))

\* PDFViewWidget.finish_text_edit of src/app.py
finish_text_edit(x) ==
    IF ~x.ed.visible \/ x.cpi = NoPage THEN x
    ELSE
    LET new_text == strip(x.ed.text)
        has_word == x.ed.original_word # <<>>
    IN IF has_word /\ new_text = x.ed.original_word[1].text
       THEN Hide(x)
       ELSE IF new_text = <<>>
       THEN Hide(IF has_word THEN delete_current_text(x) ELSE x)
       ELSE Hide(CommitEdit(x))

\* PDFViewWidget.delete_current_text of src/app.py
delete_current_text(x0) ==
    IF x0.ed.original_word = <<>> THEN x0
    ELSE
    LET fault == NextFault(x0)
        x == [DealFault(x0) EXCEPT !.deletes = @ + 1]
    IN IF ~ValidIndex(x.doc, x.cpi) THEN ErrorDialog(Failed(x))
       ELSE
       LET page == PageAt(x.doc, x.cpi)
           word == x.ed.original_word[1]
           d2 == SetPage(x.doc, x.cpi,
                         apply_redactions(page, {WordRect(word)}))
       IN IF SaveRaises(d2, fault)
          THEN ErrorDialog(Failed(
                   [x EXCEPT !.doc = d2, !.redacts = @ + 1]))
          ELSE Hide([x EXCEPT !.doc = d2, !.file = d2,
                              !.pw = show_page(d2, x.pw, x.cpi),
                              !.redacts = @ + 1, !.saves = @ + 1])

\* as custom_focus_out, but the edit is finished whatever was typed
custom_focus_out_always_finishes(x) == finish_text_edit(x)

\* custom_focus_out of PDFViewWidget.__init__ of src/app.py
custom_focus_out(x) ==
    LET typed == strip(x.ed.text)
    IN IF typed # <<>> THEN finish_text_edit(x) ELSE Hide(x)

\* the point of document space a click at pos maps to:
\* pos * (page_rect.width / label.width) on each axis
ToDocSpace(pos, label_w, label_h) ==
    [x |-> (pos.x * PageW) \div label_w, y |-> (pos.y * PageH) \div label_h]

\* a hit test that leaves the sides of the boxes out
RECURSIVE ClickedInside(_, _, _)
ClickedInside(words, pt, k) ==
    IF k > Len(words) THEN <<>>
    ELSE IF /\ words[k].x0 < pt.x /\ pt.x < words[k].x1
            /\ words[k].y0 < pt.y /\ pt.y < words[k].y1
         THEN <<words[k]>>
         ELSE ClickedInside(words, pt, k + 1)

\* the first word of the page, in listing order, whose box holds the point
RECURSIVE ClickedFrom(_, _, _)
ClickedFrom(words, pt, k) ==
    IF k > Len(words) THEN <<>>
    ELSE IF /\ words[k].x0 <= pt.x /\ pt.x <= words[k].x1
            /\ words[k].y0 <= pt.y /\ pt.y <= words[k].y1
         THEN <<words[k]>>
         ELSE ClickedFrom(words, pt, k + 1)

\* the editor after PDFViewWidget.handle_edit_click put it at the click
ClickEditor(page, pt) ==
    LET clicked_word == ClickedFrom(page.words, pt, 1)
    IN [visible |-> TRUE, focus |-> TRUE,
        text |-> IF clicked_word # <<>> THEN clicked_word[1].text ELSE Empty,
        original_word |-> clicked_word,
        pdf_position |-> <<pt>>]

----------------------------------------------------------------------------
(* The files and the documents a run starts from *)

OrigPath == "a.pdf"            \* the file the user opens
WorkPath == "working_a.pdf"    \* temp_dir/working_<name>
OutPath == "out.pdf"           \* another place the user may save to
Paths == {OrigPath, WorkPath, OutPath}

\* a word of text on text line ln (0-based), starting at x
WordOn(x, ln, text) ==
    Word(x, ln * LineH, x + CharW * Len(text), (ln + 1) * LineH, text)

\* "Cat Category" on page 0, "Hello" on page 1
DocA ==
    << Page(0, <<WordOn(0, 0, Cat), WordOn(8, 0, Category)>>),
       Page(1, <<WordOn(0, 0, Hello)>>) >>

\* one page: "Cat" with "Hi" set right after it, then "CatCat"
DocB ==
    << Page(0, <<WordOn(0, 0, Cat), WordOn(6, 0, Hi),
                 WordOn(18, 0, CatCat)>>) >>

SampleDocs == {DocA, DocB}

\* three pages: "Cat" on an image, "Hi", "Hello"
DocC ==
    << ImagePage(0, <<WordOn(0, 0, Cat)>>),
       Page(1, <<WordOn(0, 0, Hi)>>),
       Page(2, <<WordOn(0, 0, Hello)>>) >>

\* the arguments the user and the callers choose from
OldTexts == {Empty, Cat, Dog}
NewTexts == {Empty, Hello, Hi}
DeleteTexts == {Cat, PaddedCat, Hel}
HighlightTexts == {Empty, Cat, Dog}
TypedTexts == {Empty, Hi}
ClickPts == {[x |-> 2, y |-> 2], [x |-> 2, y |-> 8]}
\* clicks on the sides and the corners of the boxes: the corner the first
\* word begins at, the corner where the box of the first word of DocB ends
\* and that of its second word begins, a point on the side two boxes share,
\* a point just past the bottom of the line
EdgePts ==
    {[x |-> 0, y |-> 0], [x |-> 6, y |-> 5], [x |-> 6, y |-> 2],
     [x |-> 6, y |-> 6]}
DefaultX == 100    \* add_text(..., position=(100, 100))
DefaultY == 100

----------------------------------------------------------------------------
(* State *)

VARIABLES
    impl,                \* "app": src/app.py, "pkg": src/app/
    fs,                  \* the files: path -> <<document>>, <<>> when absent
    status,              \* the tab: "none", "open", "closed", or "failed":
                         \* the tab of a viewer that could not open its file
    doc,                 \* self.doc, the in-memory document
    page_widgets,        \* self.page_widgets
    edit_mode,           \* self.edit_mode
    current_page_index,  \* self.current_page_index
    ed,                  \* self.current_text_edit
    file_paths,          \* PDFViewerApp.file_paths: {<<tab index, path>>}
    last,                \* what the last operation was and did
    committed,           \* the document the successful operations alone produce
    orig_at_open,        \* the content of the original file when it was opened
    nops,                \* engine calls, editor commits and saves so far
    nopens,              \* files opened so far
    tabs,                \* several documents in tab_widget: the viewers in
                         \* tab order, and the files they were opened from
    zoom                 \* self.zoom, a fraction num / den

vars == <<impl, fs, status, doc, page_widgets, edit_mode, current_page_index,
          ed, file_paths, last, committed, orig_at_open, nops, nopens, tabs,
          zoom>>

\* self.zoom is a fraction num / den in lowest terms (the rounding of the
\* floating-point product and quotient is left out)
RECURSIVE GCD(_, _)
GCD(a, b) == IF b = 0 THEN a ELSE GCD(b, a % b)
Abs(n) == IF n < 0 THEN -n ELSE n
Fraction(num, den) ==
    LET g == GCD(Abs(num), Abs(den))
    IN IF g = 0 THEN [num |-> num, den |-> den]
       ELSE [num |-> num \div g, den |-> den \div g]

\* self.zoom = 1.0 in src/app.py, self.zoom = 1.5 in src/app/
InitialZoom(program) ==
    IF program = "app" THEN Fraction(1, 1) ELSE Fraction(3, 2)

\* self.zoom *= 1.2
ZoomIn(z) == Fraction(z.num * 6, z.den * 5)

\* as ZoomOut, but 1.2 is subtracted
ZoomOutBySubtracting(z) == Fraction(5 * z.num - 6 * z.den, 5 * z.den)

\* self.zoom /= 1.2
ZoomOut(z) == Fraction(z.num * 5, z.den * 6)

\* the files of a run with several documents open, and what a file or a
\* working copy holds: the document of file `of` after `edits` edits
TabFiles == {"a.pdf", "b.pdf", "c.pdf"}
Content(of, edits) == [of |-> of, edits |-> edits]

\* op: the operation; ok, raised, saves, redacts, inserts, found: as in Res;
\* attempts: the mutating bodies it ran; retried: one of them ran more than
\* once; page, old, new: its arguments
Last(op, ok, raised, saves, redacts, inserts, found, attempts, retried, page, old, new) ==
    [op |-> op, ok |-> ok, raised |-> raised, saves |-> saves,
     redacts |-> redacts, inserts |-> inserts, found |-> found,
     attempts |-> attempts, retried |-> retried, page |-> page, old |-> old,
     new |-> new]

\* the application was started and a file, one of docs, is there to open
InitWith(docs) ==
    /\ impl \in {"app", "pkg"}
    /\ \E d \in docs :
           fs = [p \in Paths |-> IF p = OrigPath THEN <<d>> ELSE <<>>]
    /\ status = "none"
    /\ doc = <<>>
    /\ page_widgets = <<>>
    /\ edit_mode = FALSE
    /\ current_page_index = NoPage
    /\ ed = HiddenEditor
    /\ file_paths = {}
    /\ last = Last("init", TRUE, FALSE, 0, 0, 0, 0, 0, FALSE, NoPage,
                   Empty, Empty)
    /\ committed = <<>>
    /\ orig_at_open = <<>>
    /\ nops = 0
    /\ nopens = 0
    /\ zoom = InitialZoom(impl)
    /\ tabs = [open |-> <<>>, steps |-> 0,
               disk |-> [p \in TabFiles \cup {OutPath} |-> Content(p, 0)]]

Init == InitWith(SampleDocs)

----------------------------------------------------------------------------
(* Document session: open, save, close *)

\* as cleanup_temp_files, but the source file is removed with the copy
cleanup_temp_files_and_source(files) ==
    [files EXCEPT ![WorkPath] = <<>>, ![OrigPath] = <<>>]

\* cleanup_temp_files: doc.close() and shutil.rmtree(temp_dir)
cleanup_temp_files(files) == [files EXCEPT ![WorkPath] = <<>>]

\* self.doc after doc.close(): loading any page of it raises
ClosedDoc == <<>>

\* what a closed document does in "if self.doc: self.doc.close()": the test
\* raises, the test is false, or close() does nothing
ClosedDocOutcomes == {"raises", "falsy", "noop"}

\* as Cleanup, but without the try: what a closed document raises gets out
CleanupUncaught(open, files, closed_doc) ==
    IF open
    THEN [open |-> FALSE, files |-> cleanup_temp_files(files),
          raised |-> FALSE]
    ELSE IF closed_doc = "raises"
    THEN [open |-> FALSE, files |-> files, raised |-> TRUE]
    ELSE [open |-> FALSE, files |-> cleanup_temp_files(files),
          raised |-> FALSE]

\* PDFViewWidget.cleanup_temp_files with its try and except, on a session
\* whose handle is open or not: the handle and the files afterwards, and
\* whether an exception got out of it
Cleanup(open, files, closed_doc) ==
    IF open
    THEN [open |-> FALSE, files |-> cleanup_temp_files(files),
          raised |-> FALSE]
    ELSE IF closed_doc = "raises"
    THEN [open |-> FALSE, files |-> files, raised |-> FALSE]
    ELSE [open |-> FALSE, files |-> cleanup_temp_files(files),
          raised |-> FALSE]

\* what the environment does to PDFViewWidget.__init__: shutil.copy2 raises
\* ("copy"), fitz.open raises or the document has no pages ("open")
OpenFaults == {"none", "copy", "open"}

\* whether the viewer becomes a tab: add_file_tab of src/app.py tests
\* "if viewer:", a widget, which is true whatever became of the document;
\* add_pdf_tab of src/app/app.py returns on "not pdf_viewer.doc"
TabAdded(program, opened) == IF program = "app" THEN TRUE ELSE opened

\* PDFViewWidget.__init__: shutil.copy2(original, working copy), fitz.open of
\* the working copy, load_pages; add_file_tab / add_pdf_tab then adds the tab
\* (add_file_tab also records file_paths[index] = file_path)
add_file_tab ==
    /\ status # "open"
    /\ nopens < MaxOpens
    /\ fs[OrigPath] # <<>>
    /\ nopens' = nopens + 1
    /\ edit_mode' = FALSE
    /\ current_page_index' = NoPage
    /\ ed' = HiddenEditor
    /\ \E fault \in OpenFaults :
         LET opened == fault = "none" /\ DocTruthy(fs[OrigPath][1])
         IN IF opened
            THEN /\ fs' = [fs EXCEPT ![WorkPath] = fs[OrigPath]]
                 /\ doc' = fs[OrigPath][1]
                 /\ page_widgets' = load_pages(fs[OrigPath][1])
                 /\ status' = "open"
                 /\ file_paths' = IF impl = "app" THEN {<<0, OrigPath>>}
                                  ELSE {}
                 /\ committed' = fs[OrigPath][1]
                 /\ orig_at_open' = fs[OrigPath]
                 /\ last' = Last("open", TRUE, FALSE, 0, 0, 0, 0, 0, FALSE,
                                 NoPage, Empty, Empty)
            ELSE \* the except branch: cleanup_temp_files and return
                 /\ fs' = Cleanup(fault = "open", fs, "falsy").files
                 /\ doc' = ClosedDoc
                 /\ page_widgets' = <<>>
                 /\ status' = IF TabAdded(impl, opened) THEN "failed"
                               ELSE status
                 /\ file_paths' = IF TabAdded(impl, opened) /\ impl = "app"
                                  THEN {<<0, OrigPath>>} ELSE file_paths
                 /\ committed' = <<>>
                 /\ orig_at_open' = fs[OrigPath]
                 /\ last' = Last("open", FALSE, TRUE, 0, 0, 0, 0, 0, FALSE,
                                 NoPage, Empty, Empty)
    /\ zoom' = InitialZoom(impl)
    /\ UNCHANGED <<tabs, impl, nops>>

\* as save_as, but the working copy is moved to new_path, not copied
save_as_moving(files, new_path, fault) ==
    IF fault = "save" \/ files[WorkPath] = <<>> THEN files
    ELSE [files EXCEPT ![new_path] = files[WorkPath], ![WorkPath] = <<>>]

\* PDFViewWidget.save_as(new_path): shutil.copy2(working copy, new_path);
\* the files afterwards, the copy failing when fault is "save" or when there
\* is no working copy
save_as(files, new_path, fault) ==
    IF fault = "save" \/ files[WorkPath] = <<>> THEN files
    ELSE [files EXCEPT ![new_path] = files[WorkPath]]

SaveAsOk(files, fault) == ~(fault = "save" \/ files[WorkPath] = <<>>)

\* PDFViewerApp.save_file of src/app.py: save_as(file_paths[current_index])
save_file ==
    /\ impl = "app"
    /\ status \in {"open", "failed"}
    /\ nops < MaxOps
    /\ nops' = nops + 1
    /\ \E fault \in SaveFaults :
       \E e \in file_paths :
           /\ e[1] = 0
           /\ fs' = save_as(fs, e[2], fault)
           /\ last' = Last("save_file", SaveAsOk(fs, fault),
                           ~SaveAsOk(fs, fault), 0, 0, 0, 0, 0, FALSE,
                           NoPage,
                           Empty, Empty)
    /\ UNCHANGED <<zoom, tabs, impl, status, doc, page_widgets, edit_mode,
                   current_page_index, ed, file_paths, committed,
                   orig_at_open, nopens>>

\* PDFViewerApp.save_pdf_as: save_as(the path the user picked)
save_pdf_as ==
    /\ status \in {"open", "failed"}
    /\ nops < MaxOps
    /\ nops' = nops + 1
    /\ \E fault \in SaveFaults :
       \E dest \in {OrigPath, OutPath} :
           /\ fs' = save_as(fs, dest, fault)
           /\ last' = Last("save_pdf_as", SaveAsOk(fs, fault),
                           ~SaveAsOk(fs, fault), 0, 0, 0, 0, 0, FALSE,
                           NoPage,
                           Empty, Empty)
    /\ UNCHANGED <<zoom, tabs, impl, status, doc, page_widgets, edit_mode,
                   current_page_index, ed, file_paths, committed,
                   orig_at_open, nopens>>

\* PDFViewerApp.close_tab: cleanup_temp_files, removeTab, del file_paths[index].
\* removeTab hides the page: an editor that has the focus loses it, and
\* custom_focus_out runs on the document that was just closed
close_tab ==
    /\ status \in {"open", "failed"}
    /\ LET c == Cleanup(status = "open", fs, "falsy")
           x0 == Ctx(ClosedDoc, ClosedDoc, page_widgets, ed,
                     current_page_index, <<>>)
           x == IF ed.visible /\ ed.focus THEN FocusOut(x0) ELSE x0
       IN /\ fs' = c.files
          /\ status' = IF c.open THEN "open" ELSE "closed"
          /\ ed' = [x.ed EXCEPT !.visible = FALSE, !.focus = FALSE]
          /\ last' = Last("close_tab", x.ok /\ ~c.raised,
                          x.raised \/ c.raised, 0, 0, 0, 0,
                          x.commits + x.deletes, FALSE, NoPage, Empty, Empty)
    /\ file_paths' = {e \in file_paths : e[1] # 0}
    /\ UNCHANGED <<zoom, tabs, impl, doc, page_widgets, edit_mode, current_page_index,
                   committed, orig_at_open, nops, nopens>>

\* PDFViewWidget.closeEvent, and __del__ of src/app/: cleanup_temp_files once
\* more, on the widget of a tab that was closed
closeEvent ==
    /\ status = "closed"
    /\ \E closed_doc \in ClosedDocOutcomes :
         LET c == Cleanup(FALSE, fs, closed_doc)
         IN /\ fs' = c.files
            /\ status' = IF c.open THEN "open" ELSE "closed"
            /\ last' = Last("cleanup_temp_files", ~c.raised, c.raised, 0, 0,
                            0, 0, 0, FALSE, NoPage, Empty, Empty)
    /\ UNCHANGED <<zoom, tabs, impl, doc, page_widgets, edit_mode, current_page_index,
                   ed, file_paths, committed, orig_at_open, nops, nopens>>

----------------------------------------------------------------------------
(* Engine calls *)

\* the state after an engine call with result r; g is the result of the same
\* call, without faults, on the document of the successful operations alone
Engine(r, g, l) ==
    /\ doc' = r.doc
    /\ fs' = [fs EXCEPT ![WorkPath] = <<r.file>>]
    /\ page_widgets' = r.pw
    /\ committed' = IF r.ok THEN g.doc ELSE committed
    /\ last' = l
    /\ nops' = nops + 1
    /\ UNCHANGED <<zoom, tabs, impl, status, edit_mode, current_page_index, ed,
                   file_paths, orig_at_open, nopens>>

CanCall == status = "open" /\ nops < MaxOps

PageArgs == 0..Len(doc)
File == fs[WorkPath][1]

ResLast(op, r, page, old, new) ==
    Last(op, r.ok, r.raised, r.saves, r.redacts, r.inserts, r.found, 1,
         FALSE, page, old, new)

DoEditText(page, old, new, fault) ==
    LET r == IF impl = "app"
             THEN edit_text(doc, File, page_widgets, page, old, new, fault)
             ELSE pkg_edit_text(doc, File, page_widgets, page, old, new,
                                fault)
        g == IF impl = "app"
             THEN edit_text(committed, committed, page_widgets, page, old,
                            new, "none")
             ELSE pkg_edit_text(committed, committed, page_widgets, page,
                                old, new, "none")
    IN Engine(r, g, ResLast("edit_text", r, page, old, new))

\* PDFViewWidget.edit_text called with any arguments
call_edit_text ==
    /\ CanCall
    /\ \E page \in PageArgs, old \in OldTexts, new \in NewTexts,
          fault \in Faults :
         DoEditText(page, old, new, fault)

\* the texts EditDialog.replace_text (src/app.py) and EditDialog.edit_text
\* (src/app/app.py) pass on to edit_text
DialogLets(old, new) ==
    IF impl = "app" THEN strip(old) # <<>> /\ strip(new) # <<>>
    ELSE old # <<>> /\ new # <<>>

\* the Replace button of the edit dialog; the page comes from a spin box
\* ranging over the pages of the document
EditDialog_replace_text ==
    /\ CanCall
    /\ DocTruthy(doc)
    /\ \E page \in 0..(Len(doc) - 1), old \in OldTexts,
          new \in NewTexts \cup {Blank}, fault \in Faults :
         /\ DialogLets(old, new)
         /\ DoEditText(page, old, new, fault)

DoDeleteText(page, text, fault) ==
    LET r == delete_text(doc, File, page_widgets, page, text, fault)
        g == delete_text(committed, committed, page_widgets, page, text,
                         "none")
    IN Engine(r, g, ResLast("delete_text", r, page, text, Empty))

\* PDFViewWidget.delete_text of src/app.py called with any arguments
call_delete_text ==
    /\ CanCall
    /\ impl = "app"
    /\ \E page \in PageArgs, text \in DeleteTexts, fault \in SaveFaults :
         DoDeleteText(page, text, fault)

\* EditDialog.delete_text_action of src/app.py: the text is stripped first
EditDialog_delete_text_action ==
    /\ CanCall
    /\ impl = "app"
    /\ DocTruthy(doc)
    /\ \E page \in 0..(Len(doc) - 1), text \in DeleteTexts,
          fault \in SaveFaults :
         /\ strip(text) # <<>>
         /\ DoDeleteText(page, strip(text), fault)

DoAddHighlight(page, text, fault) ==
    LET r == IF impl = "app"
             THEN add_highlight(doc, File, page_widgets, page, text, fault)
             ELSE pkg_add_highlight(doc, File, page_widgets, page, text,
                                    fault)
        g == IF impl = "app"
             THEN add_highlight(committed, committed, page_widgets, page,
                                text, "none")
             ELSE pkg_add_highlight(committed, committed, page_widgets, page,
                                    text, "none")
    IN Engine(r, g, ResLast("add_highlight", r, page, text, Empty))

\* PDFViewWidget.add_highlight called with any arguments
call_add_highlight ==
    /\ CanCall
    /\ \E page \in PageArgs, text \in HighlightTexts, fault \in SaveFaults :
         DoAddHighlight(page, text, fault)

\* EditDialog.highlight_text_action (both implementations)
EditDialog_highlight_text_action ==
    /\ CanCall
    /\ DocTruthy(doc)
    /\ \E page \in 0..(Len(doc) - 1), text \in HighlightTexts,
          fault \in SaveFaults :
         /\ text # <<>>
         /\ DoAddHighlight(page, text, fault)

\* add_text of src/app/widgets/pdf_view_widget.py, called by
\* EditDialog.add_text of src/app/app.py at the default position
EditDialog_add_text ==
    /\ CanCall
    /\ impl = "pkg"
    /\ DocTruthy(doc)
    /\ \E page \in 0..(Len(doc) - 1), text \in {Hi}, fault \in Faults :
         LET r == add_text(doc, File, page_widgets, page, text, DefaultX,
                           DefaultY, fault)
             g == add_text(committed, committed, page_widgets, page, text,
                           DefaultX, DefaultY, "none")
         IN Engine(r, g, ResLast("add_text", r, page, Empty, text))

\* remove_page(index), from "Close This Page" of a page's context menu
call_remove_page ==
    /\ CanCall
    /\ \E index \in 0..Len(page_widgets), fault \in SaveFaults,
          refuse \in BOOLEAN :
         LET r == remove_page(doc, File, page_widgets, index, fault, refuse)
             g == remove_page(committed, committed, page_widgets, index,
                              "none", refuse)
         IN Engine(r, g, ResLast("remove_page", r, index, Empty, Empty))

RotateDegrees == 90    \* rotate_all(90); rotate_all_pages(degrees=90)

\* PDFViewerApp.rotate_all(90) -> rotate_all_pages(90)
call_rotate_all_pages ==
    /\ CanCall
    /\ \E fault \in SaveFaults :
         LET r == rotate_all_pages(doc, File, page_widgets, RotateDegrees,
                                   fault)
             g == rotate_all_pages(committed, committed, page_widgets,
                                   RotateDegrees, "none")
         IN Engine(r, g,
                   ResLast("rotate_all_pages", r, NoPage, Empty, Empty))

----------------------------------------------------------------------------
(* Click-to-edit of src/app.py *)

\* PDFViewWidget.start_edit_mode: every page label gets the click handler
\* lambda e, idx=i: self.handle_edit_click(e, idx)
start_edit_mode ==
    /\ impl = "app"
    /\ status = "open"
    /\ edit_mode' = TRUE
    /\ page_widgets' = [k \in 1..Len(page_widgets) |->
                           [page_widgets[k] EXCEPT !.handler = k - 1]]
    /\ UNCHANGED <<zoom, tabs, impl, fs, status, doc, current_page_index, ed, file_paths,
                   last, committed, orig_at_open, nops, nopens>>

\* PDFViewWidget.stop_edit_mode
stop_edit_mode ==
    /\ impl = "app"
    /\ status = "open"
    /\ edit_mode' = FALSE
    /\ page_widgets' = [k \in 1..Len(page_widgets) |->
                           [page_widgets[k] EXCEPT !.handler = NoHandler]]
    /\ UNCHANGED <<zoom, tabs, impl, fs, status, doc, current_page_index, ed, file_paths,
                   last, committed, orig_at_open, nops, nopens>>

\* the sizes page_label.width() and page_label.height() may report at a
\* click: those of the rendered page, or zero on one axis
LabelSizes ==
    { [w |-> PageW, h |-> PageH], [w |-> 0, h |-> PageH],
      [w |-> PageW, h |-> 0] }

\* PDFViewWidget.handle_edit_click(event, page_idx), page_idx being the index
\* bound into the handler of the widget that was clicked.  The page index is
\* stored first; page_rect.width / label.width() raises ZeroDivisionError on a
\* label of no width or height, and nothing in the handler catches it
handle_edit_click_at(pts) ==
    /\ impl = "app"
    /\ status = "open"
    /\ edit_mode
    /\ \E j \in 1..Len(page_widgets), pos \in pts, label \in LabelSizes :
         LET page_idx == page_widgets[j].handler
         IN /\ page_idx # NoHandler
            /\ current_page_index' = page_idx
            /\ IF ~ValidIndex(doc, page_idx)
               THEN UNCHANGED <<ed, last>>
               ELSE IF label.w = 0 \/ label.h = 0
               THEN /\ ed' = ed
                    /\ last' = Last("handle_edit_click", FALSE, TRUE, 0, 0,
                                    0, 0, 0, FALSE, page_idx, Empty, Empty)
               ELSE /\ ed' = ClickEditor(PageAt(doc, page_idx),
                                         ToDocSpace(pos, label.w, label.h))
                    /\ last' = last
    /\ UNCHANGED <<zoom, tabs, impl, fs, status, doc, page_widgets, edit_mode,
                   file_paths, committed, orig_at_open, nops, nopens>>

handle_edit_click == handle_edit_click_at(ClickPts)

\* the user types into the editor
type_text ==
    /\ ed.visible /\ ed.focus
    /\ \E t \in TypedTexts : ed' = [ed EXCEPT !.text = t]
    /\ UNCHANGED <<zoom, tabs, impl, fs, status, doc, page_widgets, edit_mode,
                   current_page_index, file_paths, last, committed,
                   orig_at_open, nops, nopens>>

\* the state after a handler of the editor ran to x; g is the same handler
\* run, without faults, on the document of the successful operations alone
EditorDone(op, x, g) ==
    /\ doc' = x.doc
    /\ fs' = [fs EXCEPT ![WorkPath] = <<x.file>>]
    /\ page_widgets' = x.pw
    /\ ed' = x.ed
    /\ committed' = IF x.ok THEN g.doc ELSE committed
    /\ nops' = IF x.commits + x.deletes > 0 THEN nops + 1 ELSE nops
    /\ last' = Last(op, x.ok, x.raised, x.saves, x.redacts, x.inserts, 0,
                    x.commits + x.deletes, x.commits > 1 \/ x.deletes > 1,
                    current_page_index,
                    IF ed.original_word # <<>>
                    THEN ed.original_word[1].text ELSE Empty,
                    strip(ed.text))
    /\ UNCHANGED <<zoom, tabs, impl, status, edit_mode, current_page_index, file_paths,
                   orig_at_open, nopens>>

Here(faults) ==
    Ctx(doc, File, page_widgets, ed, current_page_index, faults)
Ghost == Ctx(committed, committed, page_widgets, ed, current_page_index, <<>>)

FaultSeqs == {<<f1, f2>> : f1 \in Faults, f2 \in Faults}

\* Return pressed in the editor: returnPressed -> finish_text_edit
return_pressed ==
    /\ status = "open"
    /\ ed.visible /\ ed.focus
    /\ nops < MaxOps
    /\ \E faults \in FaultSeqs :
         EditorDone("finish_text_edit", finish_text_edit(Here(faults)),
                    finish_text_edit(Ghost))

\* the editor loses the focus to another widget: focusOutEvent
focus_out ==
    /\ status = "open"
    /\ ed.visible /\ ed.focus
    /\ nops < MaxOps
    /\ \E faults \in FaultSeqs :
         EditorDone("custom_focus_out", FocusOut(Here(faults)),
                    FocusOut(Ghost))

\* right click on the editor: show_text_edit_menu opens the menu, which takes
\* the focus, and the user picks Delete: delete_current_text
ContextDelete(x) == delete_current_text(IF x.ed.focus THEN FocusOut(x) ELSE x)

context_menu_delete ==
    /\ status = "open"
    /\ ed.visible
    /\ nops < MaxOps
    /\ \E faults \in FaultSeqs :
         EditorDone("delete_current_text", ContextDelete(Here(faults)),
                    ContextDelete(Ghost))

----------------------------------------------------------------------------
(* Specification *)

\* the session and the engine, called by the dialogs and directly
Next ==
    \/ add_file_tab
    \/ save_file
    \/ save_pdf_as
    \/ close_tab
    \/ call_edit_text
    \/ EditDialog_replace_text
    \/ call_delete_text
    \/ EditDialog_delete_text_action
    \/ call_add_highlight
    \/ EditDialog_highlight_text_action
    \/ EditDialog_add_text
    \/ call_remove_page
    \/ call_rotate_all_pages

Spec == Init /\ [][Next]_vars

\* click-to-edit of src/app.py
NextEdit ==
    \/ add_file_tab
    \/ close_tab
    \/ start_edit_mode
    \/ stop_edit_mode
    \/ handle_edit_click
    \/ type_text
    \/ return_pressed
    \/ focus_out
    \/ context_menu_delete
    \/ call_remove_page

SpecEdit == Init /\ [][NextEdit]_vars

\* the clicks of click-to-edit, those on the sides and corners of the boxes
\* among them
handle_edit_click_on_edge == handle_edit_click_at(ClickPts \cup EdgePts)

NextClick ==
    \/ add_file_tab
    \/ close_tab
    \/ start_edit_mode
    \/ stop_edit_mode
    \/ handle_edit_click_on_edge
    \/ type_text
    \/ call_remove_page

\* click-to-edit exists in src/app.py alone
InitClick == Init /\ impl = "app"

SpecClick == InitClick /\ [][NextClick]_vars

MaxZoomClicks == 2     \* clicks of zoom_in, or of zoom_out, away from 1.0
ZoomCap == 6 ^ MaxZoomClicks

\* PDFViewWidget.zoom_in of src/app.py: self.zoom *= 1.2, every page shown
zoom_in ==
    /\ impl = "app"
    /\ status = "open"
    /\ zoom.num < ZoomCap
    /\ zoom' = ZoomIn(zoom)
    /\ page_widgets' = show_all_pages(doc, page_widgets)
    /\ UNCHANGED <<tabs, impl, fs, status, doc, edit_mode, current_page_index,
                   ed, file_paths, last, committed, orig_at_open, nops,
                   nopens>>

\* PDFViewWidget.zoom_out of src/app.py: self.zoom /= 1.2, every page shown
zoom_out ==
    /\ impl = "app"
    /\ status = "open"
    /\ zoom.den < ZoomCap
    /\ zoom' = ZoomOut(zoom)
    /\ page_widgets' = show_all_pages(doc, page_widgets)
    /\ UNCHANGED <<tabs, impl, fs, status, doc, edit_mode, current_page_index,
                   ed, file_paths, last, committed, orig_at_open, nops,
                   nopens>>

\* page structure and the end of a session, on a document of three pages
InitPages == InitWith({DocC})

NextPages ==
    \/ add_file_tab
    \/ close_tab
    \/ closeEvent
    \/ call_remove_page
    \/ call_rotate_all_pages
    \/ save_pdf_as
    \/ call_add_highlight
    \/ zoom_in
    \/ zoom_out

SpecPages == InitPages /\ [][NextPages]_vars

----------------------------------------------------------------------------
(* Several documents open in the tabs of PDFViewerApp (src/app.py) *)

MaxTabs == 3       \* tabs open at a time
MaxTabEdits == 1   \* edits of one document
MaxTabSteps == 6   \* openings, closings, edits and saves per run

\* self.file_paths[index] = path: a dict, one path per key
SetPath(paths, index, path) ==
    {e \in paths : e[1] # index} \cup {<<index, path>>}

\* PDFViewerApp.add_file_tab with several tabs: the viewer copies the file to
\* a working copy of its own; index = tab_widget.addTab(viewer, filename) is
\* the number of tabs there were; file_paths[index] = file_path
add_file_tab_to_tabs ==
    /\ impl = "app"
    /\ tabs.steps < MaxTabSteps
    /\ Len(tabs.open) < MaxTabs
    /\ \E p \in TabFiles :
         /\ tabs' = [tabs EXCEPT !.open =
                        Append(@, [path |-> p, work |-> tabs.disk[p]]),
                                 !.steps = @ + 1]
         /\ file_paths' = SetPath(file_paths, Len(tabs.open), p)
    /\ UNCHANGED <<zoom, impl, fs, status, doc, page_widgets, edit_mode,
                   current_page_index, ed, last, committed, orig_at_open,
                   nops, nopens>>

\* PDFViewerApp.close_tab(index) with several tabs: cleanup_temp_files of the
\* viewer, removeTab(index), after which the tabs behind it are one index
\* lower, and "if index in self.file_paths: del self.file_paths[index]"
close_tab_of_tabs ==
    /\ impl = "app"
    /\ tabs.steps < MaxTabSteps
    /\ \E index \in 0..(Len(tabs.open) - 1) :
         /\ tabs' = [tabs EXCEPT !.open = RemoveAt(@, index),
                                 !.steps = @ + 1]
         /\ file_paths' = {e \in file_paths : e[1] # index}
    /\ UNCHANGED <<zoom, impl, fs, status, doc, page_widgets, edit_mode,
                   current_page_index, ed, last, committed, orig_at_open,
                   nops, nopens>>

\* a successful operation of the engine on the viewer of the current tab: its
\* effect is in that viewer's working copy
edit_in_tab ==
    /\ impl = "app"
    /\ tabs.steps < MaxTabSteps
    /\ \E index \in 0..(Len(tabs.open) - 1) :
         LET w == tabs.open[index + 1].work
         IN /\ w.edits < MaxTabEdits
            /\ tabs' = [tabs EXCEPT !.open[index + 1].work =
                                        Content(w.of, w.edits + 1),
                                    !.steps = @ + 1]
    /\ UNCHANGED <<zoom, impl, fs, status, doc, page_widgets, edit_mode,
                   current_page_index, ed, file_paths, last, committed,
                   orig_at_open, nops, nopens>>

\* PDFViewerApp.save_file with several tabs: current_index not in file_paths
\* goes to save_pdf_as, where the user picks a file, out.pdf; otherwise
\* current_widget.save_as(self.file_paths[current_index])
save_file_of_tabs ==
    /\ impl = "app"
    /\ tabs.steps < MaxTabSteps
    /\ \E current_index \in 0..(Len(tabs.open) - 1) :
         LET w == tabs.open[current_index + 1].work
             known == {e \in file_paths : e[1] = current_index}
         IN IF known = {}
            THEN tabs' = [tabs EXCEPT !.disk[OutPath] = w,
                                      !.steps = @ + 1]
            ELSE \E e \in known :
                    tabs' = [tabs EXCEPT !.disk[e[2]] = w,
                                         !.steps = @ + 1]
    /\ UNCHANGED <<zoom, impl, fs, status, doc, page_widgets, edit_mode,
                   current_page_index, ed, file_paths, last, committed,
                   orig_at_open, nops, nopens>>

InitTabs == Init /\ impl = "app"

NextTabs ==
    \/ add_file_tab_to_tabs
    \/ close_tab_of_tabs
    \/ edit_in_tab
    \/ save_file_of_tabs

SpecTabs == InitTabs /\ [][NextTabs]_vars

----------------------------------------------------------------------------
(* Properties *)

C2_FailureLeavesWorkingCopy ==
    [][(/\ nops' = nops + 1
        /\ last'.raised
        /\ (last'.attempts = 1 \/ last'.retried))
       => (/\ fs'[WorkPath] = fs[WorkPath]
           /\ ~last'.ok
           /\ ~last'.retried)]_vars

\* C3: the working copy is the document at open plus the effects of the
\* successful operations only; nothing of a failed transaction reaches it.
C3_WorkingCopyIsCommitted == status = "open" => fs[WorkPath] = <<committed>>

\* C4: when a mutating operation has reported success, a save has completed
\* and the working copy is the in-memory document, with the effect of the
\* operation and of every operation before it.
C4_SuccessIsPersisted ==
    (/\ status = "open"
     /\ last.ok
     /\ last.op \in {"edit_text", "delete_text", "add_highlight", "add_text",
                     "remove_page", "rotate_all_pages"})
    => (last.saves >= 1 /\ fs[WorkPath] = <<doc>>)

\* two operations succeeded one after the other, the second a replacement, and
\* the working copy holds the document they produced
C4_Witness ==
    /\ status = "open"
    /\ nops = 2
    /\ last.op = "edit_text" /\ last.ok /\ last.found >= 2
    /\ committed = doc
    /\ doc # orig_at_open[1]
    /\ fs[WorkPath] = <<doc>>

\* C5: edit_text on a page where the search for old_text finds nothing reports
\* failure and does nothing: no redaction, no insertion, no save; the
\* in-memory document, the files and the page widgets are as before.
C5_NoMatchNoChange ==
    [][(/\ nops' = nops + 1
        /\ last'.op = "edit_text"
        /\ ValidIndex(doc, last'.page)
        /\ search_for(PageAt(doc, last'.page), last'.old) = <<>>)
       => (/\ ~last'.ok
           /\ last'.redacts = 0 /\ last'.inserts = 0 /\ last'.saves = 0
           /\ doc' = doc /\ fs' = fs /\ page_widgets' = page_widgets)]_vars

\* edit_text looked for a text that is not on the page of a document with
\* text, after an earlier operation, and reported failure without an error
C5_Witness ==
    /\ status = "open"
    /\ nops = 2
    /\ last.op = "edit_text" /\ last.old = Dog /\ last.new = Hello
    /\ ValidIndex(doc, last.page)
    /\ PageAt(doc, last.page).words # <<>>
    /\ ~last.ok /\ ~last.raised /\ last.found = 0

\* C6: after a successful edit_text whose new text is not blank and does not
\* contain the old text, a search of the page for the old text finds nothing
\* and a search for the new text finds at least one match per occurrence that
\* was replaced.
C6_ReplacesEveryOccurrence ==
    [][(/\ nops' = nops + 1
        /\ last'.op = "edit_text" /\ last'.ok
        /\ ValidIndex(doc, last'.page)
        /\ strip(last'.new) # <<>>
        /\ Occurrences(last'.new, last'.old, 1) = <<>>)
       => (/\ search_for(PageAt(doc', last'.page), last'.old) = <<>>
           /\ Len(search_for(PageAt(doc', last'.page), last'.new))
                >= Len(search_for(PageAt(doc, last'.page), last'.old)))]_vars

\* C7: edit_text with an empty old text or an empty new text is rejected: it
\* reports failure and leaves the document and the files as they were.
C7_EmptyTextRejected ==
    [][(/\ nops' = nops + 1
        /\ last'.op = "edit_text"
        /\ (last'.old = Empty \/ last'.new = Empty))
       => (~last'.ok /\ doc' = doc /\ fs' = fs)]_vars

\* C8: delete_text that found a word removes the words whose stripped text
\* equals the stripped query and nothing else: every other word of the page is
\* there afterwards with its text and its box.
C8_DeletesOnlyExactWords ==
    [][(/\ nops' = nops + 1
        /\ last'.op = "delete_text"
        /\ ValidIndex(doc, last'.page)
        /\ last'.found > 0)
       => LET Other(w) == strip(w.text) # strip(last'.old)
          IN PageAt(doc', last'.page).words
               = SelectSeq(PageAt(doc, last'.page).words, Other)]_vars

\* C9: delete_text on a page no word of which equals the query (both
\* stripped) reports failure and does nothing: no redaction, no save; the
\* in-memory document, the files and the page widgets are as before.
C9_NoExactWordNoChange ==
    [][(/\ nops' = nops + 1
        /\ last'.op = "delete_text"
        /\ ValidIndex(doc, last'.page)
        /\ \A k \in 1..Len(PageAt(doc, last'.page).words) :
              strip(PageAt(doc, last'.page).words[k].text) # strip(last'.old))
       => (/\ ~last'.ok
           /\ last'.redacts = 0 /\ last'.saves = 0
           /\ doc' = doc /\ fs' = fs /\ page_widgets' = page_widgets)]_vars

\* delete_text was asked for a text that a word of the page contains but no
\* word equals, and reported failure without an error
C9_Witness ==
    /\ status = "open"
    /\ last.op = "delete_text" /\ last.old = Hel
    /\ ValidIndex(doc, last.page)
    /\ search_for(PageAt(doc, last.page), Hel) # <<>>
    /\ ~last.ok /\ ~last.raised /\ last.found = 0

\* C10: add_highlight leaves the words of every page (text and box), the
\* rotation and the number of pages as they were; only the highlights of the
\* page it was called for grow, by the number of matches of the text.
C10_HighlightKeepsText ==
    [][(nops' = nops + 1 /\ last'.op = "add_highlight")
       => (/\ Len(doc') = Len(doc)
           /\ \A k \in 1..Len(doc) :
                /\ doc'[k].words = doc[k].words
                /\ doc'[k].rot = doc[k].rot
                /\ doc'[k].id = doc[k].id
                /\ Len(doc'[k].hl)
                     = Len(doc[k].hl)
                       + (IF k = last'.page + 1
                          THEN Len(search_for(doc[k], last'.old)) ELSE 0))]_vars

\* the same text was highlighted twice on a page: its matches are marked
\* twice and the words of the page are those of the file that was opened
C10_Witness ==
    /\ status = "open"
    /\ nops = 2
    /\ last.op = "add_highlight" /\ last.ok /\ last.found >= 2
    /\ ValidIndex(doc, last.page)
    /\ Len(PageAt(doc, last.page).hl) = 2 * last.found
    /\ PageAt(doc, last.page).words = PageAt(orig_at_open[1], last.page).words

\* C11: a locate-based call (edit_text, delete_text, add_highlight) whose
\* locate step finds no target on the page ends aborted: it reports failure,
\* applies no redaction and makes no save.
C11_NoTargetAborts ==
    [][(/\ nops' = nops + 1
        /\ last'.op \in {"edit_text", "delete_text", "add_highlight"}
        /\ ValidIndex(doc, last'.page)
        /\ IF last'.op = "delete_text"
           THEN ExactFrom(PageAt(doc, last'.page).words, last'.old, 1) = <<>>
           ELSE search_for(PageAt(doc, last'.page), last'.old) = <<>>)
       => (~last'.ok /\ last'.saves = 0 /\ last'.redacts = 0)]_vars

\* C12: a commit of the inline editor (Return or loss of focus) on a word that
\* was hit, with text equal to the word's text, mutates nothing: no operation
\* is run, the in-memory document, the files and the page widgets are as
\* before, and the editor is hidden.
C12_UnchangedTextNoMutation ==
    [][(/\ status = "open" /\ status' = "open"
        /\ ed.visible /\ ed.focus /\ ~ed'.focus
        /\ ~(nops' = nops + 1 /\ last'.op = "delete_current_text")
        /\ current_page_index # NoPage
        /\ ed.original_word # <<>>
        /\ strip(ed.text) = ed.original_word[1].text)
       => (/\ doc' = doc /\ fs' = fs /\ page_widgets' = page_widgets
           /\ nops' = nops /\ last'.attempts = 0
           /\ ~ed'.visible)]_vars

\* the editor was opened on a word, committed with the word's text and is
\* hidden; nothing was run and the document is the one that was opened
C12_Witness ==
    /\ status = "open"
    /\ ~ed.visible
    /\ ed.original_word # <<>>
    /\ strip(ed.text) = ed.original_word[1].text
    /\ nops = 0
    /\ doc = orig_at_open[1]
    /\ fs[WorkPath] = orig_at_open

\* C13, as stated: whichever way the editor is left (Return, loss of focus,
\* Delete of its menu) with empty text on a word that was hit, the deletion
\* of the word is run.
C13_EmptyTextDeletesOnEveryWay ==
    [][(/\ status = "open" /\ status' = "open"
        /\ ed.visible /\ ed.focus /\ ~ed'.focus
        /\ ValidIndex(doc, current_page_index)
        /\ ed.original_word # <<>>
        /\ \E k \in 1..Len(PageAt(doc, current_page_index).words) :
              PageAt(doc, current_page_index).words[k] = ed.original_word[1]
        /\ strip(ed.text) = <<>>)
       => (nops' = nops + 1 /\ last'.attempts >= 1 /\ last'.redacts = 1)]_vars

\* C13, amended: Return with empty text on a word that was hit runs the
\* deletion once: the word's box is redacted, nothing is inserted, and on
\* success the page is the page with that box redacted, the word is gone and
\* the document was saved once (on failure the files are as before).  Loss of focus with empty text
\* discards the edit, and Return with empty text and no word that was hit
\* does nothing: no operation runs, document and files are as before.
C13_EmptyTextReturnDeletes ==
    [][(/\ status = "open" /\ status' = "open"
        /\ ed.visible /\ ed.focus /\ ~ed'.focus
        /\ ValidIndex(doc, current_page_index)
        /\ (ed.original_word # <<>> =>
              \E k \in 1..Len(PageAt(doc, current_page_index).words) :
                 PageAt(doc, current_page_index).words[k]
                    = ed.original_word[1])
        /\ strip(ed.text) = <<>>
        /\ last'.op \in {"finish_text_edit", "custom_focus_out"})
       => IF last'.op = "finish_text_edit" /\ ed.original_word # <<>>
          THEN /\ nops' = nops + 1
               /\ last'.attempts = 1
               /\ last'.redacts = 1 /\ last'.inserts = 0
               /\ IF last'.ok
                  THEN /\ last'.saves = 1
                       /\ doc' = SetPage(
                                     doc, current_page_index,
                                     apply_redactions(
                                         PageAt(doc, current_page_index),
                                         {WordRect(ed.original_word[1])}))
                       /\ \A k \in 1..Len(PageAt(doc', current_page_index).words) :
                              PageAt(doc', current_page_index).words[k]
                                 # ed.original_word[1]
                       /\ fs'[WorkPath] = <<doc'>>
                  ELSE fs' = fs
          ELSE /\ nops' = nops /\ last'.attempts = 0
               /\ doc' = doc /\ fs' = fs]_vars

\* Return was pressed with empty text on the word "Cat" that was hit: the
\* word was redacted, nothing inserted, and the working copy saved
C13_Witness ==
    /\ status = "open"
    /\ last.op = "finish_text_edit" /\ last.ok
    /\ last.old = Cat /\ last.new = Empty
    /\ last.redacts = 1 /\ last.inserts = 0 /\ last.saves = 1
    /\ ~ed.visible
    /\ fs[WorkPath] = <<doc>>
    /\ doc # orig_at_open[1]

\* C14: a commit (Return or loss of focus) on a word that was hit, with
\* non-empty text different from the word's, that ran once without an error
\* redacted once, saved once, and the new text, the last word set on the
\* page, starts at the left edge of the box of the word that was hit.
C14_ReinsertedAtWordOrigin ==
    [][(/\ status = "open" /\ status' = "open"
        /\ ed.visible /\ ed.focus /\ ~ed'.focus
        /\ nops' = nops + 1
        /\ last'.op \in {"finish_text_edit", "custom_focus_out"}
        /\ last'.ok /\ last'.attempts = 1
        /\ ValidIndex(doc, current_page_index)
        /\ ed.original_word # <<>>
        /\ \E k \in 1..Len(PageAt(doc, current_page_index).words) :
              PageAt(doc, current_page_index).words[k] = ed.original_word[1]
        /\ strip(ed.text) # <<>>
        /\ strip(ed.text) # ed.original_word[1].text)
       => LET words == PageAt(doc', current_page_index).words
          IN /\ last'.redacts = 1 /\ last'.saves = 1
             /\ words # <<>>
             /\ words[Len(words)].text = strip(ed.text)
             /\ words[Len(words)].x0 = ed.original_word[1].x0]_vars

\* C15: a commit with non-empty text when the click hit no word applies no
\* redaction; when no error is raised it ran once, saved once, every word of
\* the page is kept in place and the text is set as one more word with its
\* baseline at the clicked point of document space; the working copy is the
\* document.
C15_NoHitInsertsAtClick ==
    [][(/\ status = "open" /\ status' = "open"
        /\ ed.visible /\ ed.focus /\ ~ed'.focus
        /\ last'.op \in {"finish_text_edit", "custom_focus_out"}
        /\ ValidIndex(doc, current_page_index)
        /\ ed.original_word = <<>>
        /\ strip(ed.text) # <<>>)
       => /\ nops' = nops + 1
          /\ last'.redacts = 0
          /\ ~last'.raised =>
               LET pos == ed.pdf_position[1]
                   t == strip(ed.text)
                   page == PageAt(doc, current_page_index)
               IN /\ last'.ok /\ last'.attempts = 1
                  /\ last'.inserts = 1 /\ last'.saves = 1
                  /\ doc' = SetPage(
                                doc, current_page_index,
                                [page EXCEPT !.words =
                                    @ \o <<Word(pos.x, pos.y - Asc,
                                                pos.x + CharW * Len(t),
                                                pos.y + Desc, t)>>])
                  /\ fs'[WorkPath] = <<doc'>>]_vars

\* "Hi" was typed after a click that hit no word and committed: one insertion,
\* no redaction, one save, and the words of the page that was opened are
\* all there
C15_Witness ==
    /\ status = "open"
    /\ last.op \in {"finish_text_edit", "custom_focus_out"}
    /\ last.ok /\ last.old = Empty /\ last.new = Hi
    /\ last.inserts = 1 /\ last.redacts = 0 /\ last.saves = 1
    /\ ed.original_word = <<>> /\ ~ed.visible
    /\ ValidIndex(doc, last.page)
    /\ Len(PageAt(doc, last.page).words)
         = Len(PageAt(orig_at_open[1], last.page).words) + 1
    /\ fs[WorkPath] = <<doc>>

\* C16, as stated: in every state of an open document, remove_page with any
\* valid index, nothing failing in the environment, succeeds and leaves one
\* page less.
C16_RemovesAnyValidPage ==
    status = "open" =>
        \A i \in 0..(Len(doc) - 1), refuse \in BOOLEAN :
            LET r == remove_page(doc, File, page_widgets, i, "none", refuse)
            IN r.ok /\ Len(r.doc) = Len(doc) - 1

\* C16, amended: in every state of an open document of n >= 2 pages,
\* remove_page with a valid index i, nothing failing in the environment,
\* succeeds with one save; n - 1 pages are left, the pages below i where they
\* were and the pages above i one index lower; the working copy is that
\* document, and the widget at every index shows the page now at that index.
C16_RemovePageShifts ==
    (status = "open" /\ Len(doc) >= 2) =>
        \A i \in 0..(Len(doc) - 1), refuse \in BOOLEAN :
            LET r == remove_page(doc, File, page_widgets, i, "none", refuse)
            IN /\ r.ok /\ ~r.raised /\ r.saves = 1
               /\ Len(r.doc) = Len(doc) - 1
               /\ \A j \in 0..(Len(doc) - 2) :
                     PageAt(r.doc, j)
                        = IF j < i THEN PageAt(doc, j) ELSE PageAt(doc, j + 1)
               /\ r.file = r.doc
               /\ Len(r.pw) = Len(r.doc)
               /\ \A j \in 0..(Len(r.doc) - 1) :
                     r.pw[j + 1].pix = PageAt(r.doc, j)

\* page 1 of the three pages was removed: two pages are left, index 1 holds
\* and shows what was page 2, and the working copy was saved
C16_Witness ==
    /\ status = "open"
    /\ last.op = "remove_page" /\ last.ok /\ last.page = 1
    /\ Len(orig_at_open[1]) = 3
    /\ Len(doc) = 2
    /\ PageAt(doc, 0) = PageAt(orig_at_open[1], 0)
    /\ PageAt(doc, 1) = PageAt(orig_at_open[1], 2)
    /\ page_widgets[2].pix = PageAt(orig_at_open[1], 2)
    /\ fs[WorkPath] = <<doc>>

\* C17: no stale page index or word span is used after remove_page.  A click
\* that sets the page index sets it to the index of a widget that carries
\* that index in its handler (the page shown in the clicked widget); and an
\* editor operation that commits on a hit word finds the page index valid and
\* that word on the page now at that index.
C17_NoStaleTargetUsed ==
    [][ /\ ( /\ status = "open" /\ status' = "open" /\ edit_mode
             /\ UNCHANGED <<doc, page_widgets, nops>>
             /\ current_page_index' # current_page_index )
           => \E k \in 1..Len(page_widgets) :
                 /\ page_widgets[k].handler = current_page_index'
                 /\ k - 1 = current_page_index'
        /\ ( /\ status = "open" /\ status' = "open"
             /\ ed.visible /\ ed.focus /\ ~ed'.focus
             /\ nops' = nops + 1
             /\ last'.op \in {"finish_text_edit", "custom_focus_out",
                              "delete_current_text"}
             /\ ed.original_word # <<>> )
           => /\ ValidIndex(doc, current_page_index)
              /\ \E k \in 1..Len(PageAt(doc, current_page_index).words) :
                    PageAt(doc, current_page_index).words[k]
                       = ed.original_word[1]
      ]_vars

\* C18: a step of save_as (Save or Save As) leaves the in-memory document, the
\* session and the working copy as they were.  When it returns True, the files
\* differ from before in the destination alone, which holds what the working
\* copy held at the call; and when the last mutating operation before it had
\* succeeded, that is the in-memory document with every effect so far.  When it
\* returns False, it reported the failure of the copy.
C18_SaveAsCopiesWorkingCopy ==
    [][ ( /\ nops' = nops + 1
          /\ last'.op \in {"save_file", "save_pdf_as"} )
        => /\ doc' = doc /\ status' = status /\ page_widgets' = page_widgets
           /\ fs'[WorkPath] = fs[WorkPath]
           /\ last'.ok
              => /\ \E dest \in Paths \ {WorkPath} :
                       fs' = [fs EXCEPT ![dest] = fs[WorkPath]]
                 /\ ( /\ last.ok
                      /\ last.op \in {"edit_text", "delete_text",
                                      "add_highlight", "add_text",
                                      "remove_page", "rotate_all_pages"} )
                    => \E dest \in Paths \ {WorkPath} : fs'[dest] = <<doc>>
           /\ ~last'.ok => (last'.raised /\ fs'[WorkPath] = fs[WorkPath])
      ]_vars

\* Save As wrote the file out.pdf after a successful operation that changed
\* the document: the file is the working copy and the edited document, and the
\* working copy and the source file are still there
C18_Witness ==
    /\ status = "open"
    /\ last.op = "save_pdf_as" /\ last.ok
    /\ fs[OutPath] = fs[WorkPath]
    /\ fs[OutPath] = <<doc>>
    /\ doc # orig_at_open[1]
    /\ fs[OrigPath] = orig_at_open

\* C19: cleanup_temp_files is idempotent.  The first call, of close_tab,
\* closes the handle and removes the working copy and nothing else; a further
\* call, on the closed session, raises nothing and leaves the files, the
\* handle and the rest of the session as they were.
C19_CleanupIdempotent ==
    [][ /\ (status = "open" /\ status' = "closed")
           => /\ fs' = [fs EXCEPT ![WorkPath] = <<>>]
              /\ last'.op = "close_tab"
        /\ (status = "closed" /\ last'.op = "cleanup_temp_files")
           => /\ ~last'.raised
              /\ status' = "closed"
              /\ fs' = fs
              /\ UNCHANGED <<doc, page_widgets, edit_mode,
                             current_page_index, ed, file_paths>>
      ]_vars

\* a tab was closed and cleanup_temp_files ran once more on its widget: the
\* working copy is gone, the source file is there
C19_Witness ==
    /\ status = "closed"
    /\ last.op = "cleanup_temp_files" /\ last.ok
    /\ fs[WorkPath] = <<>>
    /\ fs[OrigPath] = orig_at_open

C21_FailedOpenNeverUsed ==
    [][ /\ (nopens' = nopens + 1 /\ ~last'.ok)
           => /\ fs'[WorkPath] = <<>>
              /\ status' # "failed"
              /\ file_paths' = file_paths
        /\ nops' = nops + 1 => status # "failed"
      ]_vars

\* C22: one commit of the editor, by Return or by the loss of the focus, runs
\* the mutating body of finish_text_edit at most once: it is not entered again
\* while it runs, and the step makes at most one redaction, one insertion and
\* one save.
C22_CommitNotReentered ==
    [][ ( /\ status = "open" /\ status' = "open"
          /\ ed.visible /\ ed.focus /\ ~ed'.focus
          /\ last'.op \in {"finish_text_edit", "custom_focus_out"} )
        => /\ ~last'.retried
           /\ last'.attempts <= 1
           /\ last'.redacts <= 1 /\ last'.inserts <= 1 /\ last'.saves <= 1
      ]_vars

\* C23: with several documents open, a file that a tab was opened from is
\* written only with the working copy of a tab that was opened from that file:
\* Save never writes a tab's working copy to the path of another tab.
C23_SaveWritesOwnPath ==
    [][ \A p \in TabFiles :
           tabs'.disk[p] # tabs.disk[p]
           => \E i \in 1..Len(tabs.open) :
                 /\ tabs.open[i].path = p
                 /\ tabs'.disk[p] = tabs.open[i].work
      ]_vars

\* C24: the zoom is strictly positive in every state; within a session it
\* changes only by zoom_in, to 1.2 times its value, and by zoom_out, to its
\* value divided by 1.2, and such a step changes neither the document nor the
\* files; a new viewer starts with the initial zoom.  No other step (edit,
\* remove page, rotate, save, close) changes it.
C24_ZoomPositiveAndOwned ==
    [][ /\ zoom.num > 0 /\ zoom.den > 0
        /\ zoom'.num > 0 /\ zoom'.den > 0
        /\ zoom' # zoom
           => \/ /\ nopens' = nopens + 1
                 /\ zoom' = InitialZoom(impl)
              \/ /\ status = "open"
                 /\ zoom' \in {ZoomIn(zoom), ZoomOut(zoom)}
                 /\ UNCHANGED <<doc, fs, status, last, nops, nopens>>
      ]_vars

\* after a highlight that succeeded the user zoomed out twice: the zoom is
\* 25/36 and the document is the highlighted one
C24_Witness ==
    /\ status = "open"
    /\ zoom = Fraction(25, 36)
    /\ last.op = "add_highlight" /\ last.ok
    /\ doc # orig_at_open[1]

\* C25: a click on a page label whose rendered width or height is zero is
\* rejected: no exception gets out of handle_edit_click, and the page index
\* and the editor are what they were.
C25_ZeroGeometryRejected ==
    [][ (last'.op = "handle_edit_click" /\ last' # last)
        => /\ ~last'.raised
           /\ current_page_index' = current_page_index
           /\ ed' = ed
      ]_vars

\* C26: in every state of an open document, rotate_all_pages(90), nothing
\* failing in the environment, succeeds with one save; every page of the
\* document has the rotation, the working copy is that document, with the
\* same rotation on every page, and every page widget shows its page again.
C26_RotationPersisted ==
    (status = "open" /\ DocTruthy(doc) /\ Len(page_widgets) = Len(doc)) =>
        LET r == rotate_all_pages(doc, File, page_widgets, RotateDegrees,
                                  "none")
        IN /\ r.ok /\ r.saves = 1
           /\ \A k \in 1..Len(r.doc) : r.doc[k].rot = RotateDegrees
           /\ Len(r.file) = Len(r.doc)
           /\ \A k \in 1..Len(r.doc) : r.file[k].rot = r.doc[k].rot
           /\ \A k \in 1..Len(r.pw) : r.pw[k].pix = r.doc[k]

\* C27: in every state of an open document, when edit_text (of either
\* program), nothing failing in the environment, returns True, it saved once
\* and every match it located was redacted and re-inserted: the page is the
\* one the redaction and insertion of every match, in order, lead to.
C27_NoMatchSkipped ==
    status = "open" =>
        \A pn \in 0..(Len(doc) - 1), old \in OldTexts, new \in NewTexts :
            LET r == IF impl = "app"
                     THEN edit_text(doc, File, page_widgets, pn, old, new,
                                    "none")
                     ELSE pkg_edit_text(doc, File, page_widgets, pn, old, new,
                                        "none")
                page == PageAt(doc, pn)
            IN r.ok => /\ r.saves = 1
                       /\ r.found >= 1
                       /\ r.redacts = r.found /\ r.inserts = r.found
                       /\ PageAt(r.doc, pn)
                            = EditLoop(page, search_for(page, old), new, 1)

\* the indices of the words of a page whose box holds the point, the four
\* sides of the box included
C28_Holding(page, pt) ==
    { k \in 1..Len(page.words) :
        /\ page.words[k].x0 <= pt.x /\ pt.x <= page.words[k].x1
        /\ page.words[k].y0 <= pt.y /\ pt.y <= page.words[k].y1 }

\* the step is a click that handle_edit_click ran to its end on
C28_Clicked ==
    /\ status = "open" /\ edit_mode
    /\ ed'.visible /\ ed'.focus /\ ed'.pdf_position # <<>>
    /\ ed' # ed
    /\ UNCHANGED <<doc, nops, last>>
    /\ ed'.pdf_position # ed.pdf_position \/ ~ed.visible

\* C28: a click handle_edit_click ran to its end on leaves the editor with,
\* as its target, the first word in the listing order of the clicked page
\* whose box holds the point, bounds included on the four sides, and that
\* word's text as its text; with no target and no text when no box holds
\* the point.
C28_HitTestFirstInclusive ==
    [][C28_Clicked =>
        LET page == PageAt(doc, current_page_index')
            pt == ed'.pdf_position[1]
            holding == C28_Holding(page, pt)
        IN IF holding = {}
           THEN ed'.original_word = <<>> /\ ed'.text = Empty
           ELSE LET k == CHOOSE i \in holding : \A j \in holding : i <= j
                IN /\ ed'.original_word = <<page.words[k]>>
                   /\ ed'.text = page.words[k].text]_vars

\* the editor was opened by a click on the corner two boxes share: the
\* target is the first of the two words
C28_Witness ==
    /\ status = "open" /\ edit_mode /\ ed.visible
    /\ ed.pdf_position # <<>> /\ ValidIndex(doc, current_page_index)
    /\ LET page == PageAt(doc, current_page_index)
           pt == ed.pdf_position[1]
       IN /\ Cardinality(C28_Holding(page, pt)) >= 2
          /\ ed.original_word # <<>>
          /\ pt.x = ed.original_word[1].x1 /\ pt.y = ed.original_word[1].y1
          /\ ed.text = ed.original_word[1].text

\* C29, its first half, after remove_page: in every state of an open session
\* that remove_page led to, whether it succeeded or failed, there are as many
\* page widgets as the document has pages.
C29_WidgetCountAfterRemove ==
    (status = "open" /\ last.op = "remove_page") =>
        Len(page_widgets) = Len(doc)

\* C30: while edit_mode is false no handler of the click-to-edit editor
\* (Return: finish_text_edit, loss of focus: custom_focus_out, the Delete
\* menu: delete_current_text) changes the document or the working copy, and
\* no click opens or moves the editor.
C30_NoEditOutsideEditMode ==
    [][(status = "open" /\ ~edit_mode) =>
         /\ (/\ last' # last
             /\ last'.op \in {"finish_text_edit", "custom_focus_out",
                              "delete_current_text"})
              => (doc' = doc /\ fs' = fs)
         /\ (ed'.visible /\ ed'.focus) => (ed.visible /\ ed.focus)
         /\ ed'.pdf_position = ed.pdf_position]_vars

====
